---- MODULE Spec2Model ----
(***************************************************************************)
(* Model of the package table of spyder-env-manager:                       *)
(*   EnvironmentPackagesModel  (QAbstractTableModel subclass)              *)
(*   EnvironmentPackagesTable  (QTableView subclass)                       *)
(* in spyder_env_manager/spyder/widgets/packages_table.py.                 *)
(*                                                                         *)
(* Python lists hold references to dict objects, and load_packages writes  *)
(* package["index"] into dicts that all_packages, packages, packages_map   *)
(* and the context menu's closures share.  The dicts therefore live in a   *)
(* heap (object id -> dict) and the lists are sequences of object ids.     *)
(* View geometry (column widths, header stretch) is not part of the state. *)
(***************************************************************************)
EXTENDS Integers, Sequences, FiniteSets, TLC

\* Longest package list a caller supplies.
MaxLen == 2

\* Column constants.
NAME == 0
DESCRIPTION == 1
VERSION == 2

\* EnvironmentPackagesActions.
UpdatePackage == "update_package"
UninstallPackage == "unistall_package"
InstallPackageVersion == "install_package_version"

\* The three triggers of the context menu, in menu order.
MenuActions == <<UpdatePackage, UninstallPackage, InstallPackageVersion>>

\* The menu entries' texts, in menu order.
MenuLabels ==
    <<"Update package", "Uninstall package", "Change package version with a constraint">>

\* Qt item data roles that data() distinguishes.
Roles == {"DisplayRole", "TextAlignmentRole", "FontRole", "BackgroundColorRole"}

\* to_qvariant() with no argument: the empty value.
EmptyVariant == "QVariant()"

\* Package records as the backend supplies them (no "index" key yet).
PkgNames == {"numpy", "six"}

PkgDescription == [n \in PkgNames |-> IF n = "numpy" THEN "array library" ELSE "py2/py3 compat"]

PkgVersion == [n \in PkgNames |-> IF n = "numpy" THEN "1.0" ELSE "1.1"]

InputPackages ==
    { [name |-> n, description |-> PkgDescription[n], version |-> PkgVersion[n],
       requested |-> r] : n \in PkgNames, r \in BOOLEAN }

\* Every list of at most MaxLen records, the empty list included.
InputLists == UNION { [1..k -> InputPackages] : k \in 0..MaxLen }

\* The `packages` argument: omitted (None) or a list.
PackagesArgs ==
    { [given |-> FALSE, list |-> <<>>] } \cup { [given |-> TRUE, list |-> l] : l \in InputLists }

\* Object ids: the dicts of all_packages plus the one a menu's closures keep alive.
Ids == 1..(MaxLen + 1)

VARIABLES
    heap,           \* object id -> dict, for every live dict
    all_packages,   \* source_model.all_packages, a list of dict references
    packages,       \* source_model.packages, a list of dict references
    packages_map,   \* source_model.packages_map, name -> dict reference
    current_row,    \* currentIndex().row() of the view, -1 when there is none
    menu_open,      \* a context menu popped up and is still shown
    menu_package,   \* <<packages[row]>> of the menu's lambdas, <<>> without a menu
    menu_row,       \* the `row` the menu's lambdas closed over, -1 without a menu
    emitted,        \* sig_action_context_menu emissions of the latest handler
    call,           \* the latest handler run and its arguments
    last_supplied,  \* <<L>> for the latest list L passed as `packages`, <<>> before any
    cells           \* what data() returned for each (index, role) of the latest paint

vars == <<heap, all_packages, packages, packages_map, current_row, menu_open,
          menu_package, menu_row, emitted, call, last_supplied, cells>>

Range(s) == { s[i] : i \in DOMAIN s }

Max(S) == CHOOSE x \in S : \A y \in S : y <= x

\* Python sequence indexing, negative indices counting from the end.
PyIndex(s, i) == IF i < 0 THEN s[Len(s) + i + 1] ELSE s[i + 1]

\* d[key] = val on a dict.
SetItem(d, key, val) == [k \in (DOMAIN d) \cup {key} |-> IF k = key THEN val ELSE d[k]]

\* The i-th fresh object id (ids in `used` are held by live objects).
NewId(i, used) ==
    LET free == Ids \ used
    IN  CHOOSE x \in free : Cardinality({ y \in free : y <= x }) = i

\* Dicts that are still referenced; the rest is garbage.
Collect(h, live) == [id \in (DOMAIN h) \cap live |-> h[id]]

\* The record of a handler invocation.
Call(op, only_requested, given, list, row) ==
    [op |-> op, only_requested |-> only_requested, given |-> given,
     packages |-> list, row |-> row]

\* Model indexes a view may hand to data(): QModelIndex() is the invalid one.
\* A valid index has row >= 0 and column >= 0; it may be stale (row >= rowCount).
ModelIndexes ==
    { [valid |-> FALSE, row |-> -1, column |-> -1] }
        \cup [valid : {TRUE}, row : 0..MaxLen, column : 0..3]

Queries == [index : ModelIndexes, role : Roles]

\* Nothing painted yet: the view holds no cell.
NoCells == <<>>

Init ==
    /\ heap = <<>>
    /\ all_packages = <<>>
    /\ packages = <<>>
    /\ packages_map = <<>>
    /\ current_row = -1
    /\ menu_open = FALSE
    /\ menu_package = <<>>
    /\ menu_row = -1
    /\ emitted = <<>>
    /\ call = Call("__init__", FALSE, FALSE, <<>>, -1)
    /\ last_supplied = <<>>
    /\ cells = NoCells

----------------------------------------------------------------------------
\* EnvironmentPackagesModel

rowCount == Len(packages)

columnCount == 3

\* data() with DESCRIPTION and VERSION exchanged.
data_SwappedColumns(index, role) ==
    LET row == index.row
    IN  IF ~index.valid \/ ~(0 <= row /\ row < Len(packages))
        THEN EmptyVariant
        ELSE LET package == heap[packages[row + 1]]
                 column == index.column
             IN  IF role = "DisplayRole"
                 THEN IF column = NAME THEN package["name"]
                      ELSE IF column = DESCRIPTION THEN package["version"]
                      ELSE IF column = VERSION THEN package["description"]
                      ELSE EmptyVariant
                 ELSE EmptyVariant

\* data() with a final `else` in place of `elif column == VERSION`.
data_ElseVersion(index, role) ==
    LET row == index.row
    IN  IF ~index.valid \/ ~(0 <= row /\ row < Len(packages))
        THEN EmptyVariant
        ELSE LET package == heap[packages[row + 1]]
                 column == index.column
             IN  IF role = "DisplayRole"
                 THEN IF column = NAME THEN package["name"]
                      ELSE IF column = DESCRIPTION THEN package["description"]
                      ELSE package["version"]
                 ELSE EmptyVariant

\* data(index, role)
data(index, role) ==
    LET row == index.row
    IN  IF ~index.valid \/ ~(0 <= row /\ row < Len(packages))
        THEN EmptyVariant
        ELSE LET package == heap[packages[row + 1]]
                 column == index.column
             IN  IF role = "DisplayRole"
                 THEN IF column = NAME THEN package["name"]
                      ELSE IF column = DESCRIPTION THEN package["description"]
                      ELSE IF column = VERSION THEN package["version"]
                      ELSE EmptyVariant
                 ELSE IF role = "TextAlignmentRole" THEN "AlignCenter"
                 ELSE IF role = "FontRole" THEN "small_font"
                 ELSE IF role = "BackgroundColorRole" /\ package["requested"]
                      THEN "COLOR_OCCURRENCE_4"
                 ELSE EmptyVariant

\* sort(column, order): the class does not override it, so the inherited
\* QAbstractItemModel.sort runs, which leaves the model as it is.
sort(pkgs, column, order) == pkgs

----------------------------------------------------------------------------
\* EnvironmentPackagesTable.load_packages

\* load_packages without the filter.
FilterRequested_Unfiltered(pkgs, h) == pkgs

\* list(filter(lambda package: package["requested"], packages))
FilterRequested(pkgs, h) ==
    LET requested(id) == h[id]["requested"]
    IN  SelectSeq(pkgs, requested)

\* for idx, package in enumerate(packages): package["index"] = idx
AssignIndex(pkgs, h) ==
    [id \in DOMAIN h |->
        IF id \in Range(pkgs)
        THEN SetItem(h[id], "index", Max({ i \in DOMAIN pkgs : pkgs[i] = id }) - 1)
        ELSE h[id]]

\* A lookup in which the first package of a name wins.
BuildPackagesMap_FirstWins(pkgs, h) ==
    [n \in { h[pkgs[i]]["name"] : i \in DOMAIN pkgs } |->
        pkgs[CHOOSE i \in DOMAIN pkgs :
                /\ h[pkgs[i]]["name"] = n
                /\ \A j \in DOMAIN pkgs : h[pkgs[j]]["name"] = n => i <= j]]

\* {package["name"]: package for package in packages}: a later package
\* with the same name replaces the earlier one.
BuildPackagesMap(pkgs, h) ==
    [n \in { h[pkgs[i]]["name"] : i \in DOMAIN pkgs } |->
        pkgs[Max({ i \in DOMAIN pkgs : h[pkgs[i]]["name"] = n })]]

\* The dicts of a list the caller supplies, placed in the heap.
Allocate(h, ids, list) ==
    [id \in (DOMAIN h) \cup Range(ids) |->
        IF id \in Range(ids) THEN list[CHOOSE i \in DOMAIN ids : ids[i] = id] ELSE h[id]]

\* load_packages(only_requested, packages); each local is bound once, in
\* the order the code assigns it.
load_packages(only_requested, arg) ==
    \E truthy \in { arg.given /\ arg.list # <<>> } :
    \* the caller's list object: references to its dicts
    \E supplied \in { [i \in 1..Len(arg.list) |-> NewId(i, Range(menu_package))] } :
    \* if packages: self.source_model.all_packages = packages
    \E all1 \in { IF truthy THEN supplied ELSE all_packages } :
    \E heap1 \in { IF truthy THEN Allocate(heap, supplied, arg.list) ELSE heap } :
    \E pkgs1 \in { IF truthy THEN supplied ELSE <<>> } :
    \* if not packages and self.source_model.all_packages: packages = all_packages
    \E pkgs2 \in { IF pkgs1 = <<>> /\ all1 # <<>> THEN all1 ELSE pkgs1 } :
    \* if only_requested: packages = list(filter(...))
    \E pkgs3 \in { IF only_requested THEN FilterRequested(pkgs2, heap1) ELSE pkgs2 } :
    \E heap3 \in { AssignIndex(pkgs3, heap1) } :
        /\ all_packages' = all1
        /\ IF pkgs2 # <<>>
           THEN /\ packages' = sort(pkgs3, NAME, "AscendingOrder")
                /\ packages_map' = BuildPackagesMap(pkgs3, heap3)
                /\ heap' = Collect(heap3, Range(all1) \cup Range(menu_package))
                \* reset(): the view drops its current index and its cells
                /\ current_row' = -1
                /\ cells' = NoCells
           ELSE /\ heap' = Collect(heap1, Range(all1) \cup Range(menu_package))
                /\ UNCHANGED <<packages, packages_map, current_row, cells>>
        /\ emitted' = <<>>
        /\ call' = Call("load_packages", only_requested, arg.given, pkgs1, -1)
        /\ last_supplied' = IF arg.given THEN <<supplied>> ELSE last_supplied
        /\ UNCHANGED <<menu_open, menu_package, menu_row>>

LoadPackages ==
    \E only_requested \in BOOLEAN, arg \in PackagesArgs : load_packages(only_requested, arg)

----------------------------------------------------------------------------
\* Row navigation

\* QTableView.selectRow(row): with SelectRows/SingleSelection the row becomes
\* the current one when the model has it, and nothing happens otherwise.
selectRow(row) ==
    current_row' = IF 0 <= row /\ row < rowCount THEN row ELSE current_row

\* next_row without the wrap to the first row.
NextRowTarget_NoWrap(row, rows) == row + 1

\* The argument next_row passes to selectRow.
NextRowTarget(row, rows) == (IF row + 1 = rows THEN -1 ELSE row) + 1

\* The argument previous_row passes to selectRow.
PreviousRowTarget(row, rows) == (IF row = 0 THEN rows ELSE row) - 1

next_row ==
    /\ selectRow(NextRowTarget(current_row, rowCount))
    /\ emitted' = <<>>
    /\ call' = Call("next_row", FALSE, FALSE, <<>>, current_row)
    /\ heap' = Collect(heap, Range(all_packages) \cup Range(menu_package))
    /\ UNCHANGED <<all_packages, packages, packages_map, menu_open, menu_package, menu_row,
                   last_supplied, cells>>

previous_row ==
    /\ selectRow(PreviousRowTarget(current_row, rowCount))
    /\ emitted' = <<>>
    /\ call' = Call("previous_row", FALSE, FALSE, <<>>, current_row)
    /\ heap' = Collect(heap, Range(all_packages) \cup Range(menu_package))
    /\ UNCHANGED <<all_packages, packages, packages_map, menu_open, menu_package, menu_row,
                   last_supplied, cells>>

----------------------------------------------------------------------------
\* Context menu

\* `packages and packages[row]["requested"]`
MenuCondition(pkgs, row, h) == pkgs # <<>> /\ h[PyIndex(pkgs, row)]["requested"]

\* contextMenuEvent(event), with row = self.rowAt(event.pos().y()): a
\* displayed row, or -1 for a position below the last row.
contextMenuEvent(row) ==
    /\ IF MenuCondition(packages, row, heap)
       THEN \* the lambdas close over `packages` and `row`; the list is never
            \* changed in place, so packages[row] is fixed from here on
            /\ menu_open' = TRUE
            /\ menu_package' = <<PyIndex(packages, row)>>
            /\ menu_row' = row
       ELSE /\ menu_open' = FALSE
            /\ menu_package' = <<>>
            /\ menu_row' = -1
    /\ emitted' = <<>>
    /\ call' = Call("contextMenuEvent", FALSE, FALSE, <<>>, row)
    /\ heap' = Collect(heap, Range(all_packages) \cup Range(menu_package'))
    /\ UNCHANGED <<all_packages, packages, packages_map, current_row, last_supplied, cells>>

ContextMenuEvent == \E row \in -1..(rowCount - 1) : contextMenuEvent(row)

\* selection(action, package_info)
selection(action, package_info) ==
    emitted' = Append(<<>>, [action |-> action, package_info |-> package_info])

\* A menu entry is triggered: its lambda calls
\* self.selection(<action name>, packages[row]) and the menu closes.
TriggerAction ==
    /\ menu_open
    /\ \E a \in DOMAIN MenuActions :
          /\ selection(MenuActions[a], menu_package[1])
          /\ call' = Call(MenuLabels[a], FALSE, FALSE, <<>>, menu_row)
    /\ menu_open' = FALSE
    /\ menu_package' = <<>>
    /\ menu_row' = -1
    /\ heap' = Collect(heap, Range(all_packages) \cup Range(menu_package))
    /\ UNCHANGED <<all_packages, packages, packages_map, current_row, last_supplied, cells>>

\* The menu is closed without choosing an entry.
DismissMenu ==
    /\ menu_open
    /\ menu_open' = FALSE
    /\ menu_package' = <<>>
    /\ menu_row' = -1
    /\ emitted' = <<>>
    /\ call' = Call("dismiss", FALSE, FALSE, <<>>, -1)
    /\ heap' = Collect(heap, Range(all_packages))
    /\ UNCHANGED <<all_packages, packages, packages_map, current_row, last_supplied, cells>>

----------------------------------------------------------------------------
\* The view paints: it asks the model for every cell and role.
paint ==
    /\ cells' = [q \in Queries |-> data(q.index, q.role)]
    /\ emitted' = <<>>
    /\ call' = Call("paint", FALSE, FALSE, <<>>, -1)
    /\ heap' = Collect(heap, Range(all_packages) \cup Range(menu_package))
    /\ UNCHANGED <<all_packages, packages, packages_map, current_row,
                   menu_open, menu_package, menu_row, last_supplied>>

----------------------------------------------------------------------------
\* The view's handlers, in any order the event loop delivers them.
Next ==
    \/ LoadPackages
    \/ next_row
    \/ previous_row
    \/ ContextMenuEvent
    \/ TriggerAction
    \/ DismissMenu
    \/ paint

Spec == Init /\ [][Next]_vars

\* The table without its context menu: loads, row navigation and painting.
NextTable ==
    \/ LoadPackages
    \/ next_row
    \/ previous_row
    \/ paint

SpecTable == Init /\ [][NextTable]_vars

----------------------------------------------------------------------------
\* Properties

\* The dict a displayed row refers to.
RowPackage(i) == heap[packages[i]]

\* Position of a dict in the stored full list.
PosInAll(id) == CHOOSE i \in DOMAIN all_packages : all_packages[i] = id

\* Plain string ordering of the package names.
NameRank == [n \in PkgNames |-> IF n = "numpy" THEN 1 ELSE 2]

\* The dict key each column shows.
ColumnKey == [c \in {NAME, DESCRIPTION, VERSION} |->
                IF c = NAME THEN "name" ELSE IF c = DESCRIPTION THEN "description" ELSE "version"]

DisplayQuery(row, column) ==
    [index |-> [valid |-> TRUE, row |-> row, column |-> column], role |-> "DisplayRole"]

\* C1: after load_packages with only_requested=True the displayed collection
\* is exactly the requested packages of the full list the call works on (the
\* stored all_packages), each once, in the full list's order.
C1_FilteredLoadShowsRequested ==
    (call.op = "load_packages" /\ call.only_requested) =>
        /\ \A i \in DOMAIN packages :
              packages[i] \in Range(all_packages) /\ RowPackage(i)["requested"]
        /\ \A id \in Range(all_packages) :
              heap[id]["requested"] => Cardinality({ i \in DOMAIN packages : packages[i] = id }) = 1
        /\ \A i, j \in DOMAIN packages :
              i < j => PosInAll(packages[i]) < PosInAll(packages[j])

\* C1 witness: a filtered load dropped the first package of a full list,
\* which was not requested, and kept the rest.
C1_Witness ==
    /\ call.op = "load_packages" /\ call.only_requested
    /\ Len(all_packages) = MaxLen
    /\ Len(packages) = MaxLen - 1
    /\ ~heap[all_packages[1]]["requested"]

\* C2: a load without a list reuses the last list supplied: the stored full
\* list is always the last supplied list, unshrunk and in its order, and an
\* unfiltered load without a list displays all of it.
C2_ReusesLastSuppliedList ==
    last_supplied # <<>> =>
        /\ all_packages = last_supplied[1]
        /\ (call.op = "load_packages" /\ ~call.given /\ ~call.only_requested)
              => packages = last_supplied[1]

\* C3: every load with a supplied list L, the empty list included, displays
\* exactly the packages of L (the requested ones under only_requested), and
\* rowCount() is their number.
C3_LoadReplacesDisplayed ==
    (call.op = "load_packages" /\ call.given) =>
        /\ Range(packages) =
              { id \in Range(call.packages) : call.only_requested => heap[id]["requested"] }
        /\ rowCount = Cardinality(Range(packages))

\* C4 as claimed: packages_map has exactly one entry per displayed package,
\* keyed by its name and mapping to it, and none for undisplayed packages.
C4_MapOneEntryPerPackage ==
    /\ Cardinality(DOMAIN packages_map) = rowCount
    /\ \A i \in DOMAIN packages :
          /\ RowPackage(i)["name"] \in DOMAIN packages_map
          /\ packages_map[RowPackage(i)["name"]] = packages[i]
    /\ \A n \in DOMAIN packages_map : packages_map[n] \in Range(packages)

\* The displayed packages have pairwise distinct names.
DistinctNames ==
    \A i, j \in DOMAIN packages : RowPackage(i)["name"] = RowPackage(j)["name"] => i = j

\* C4 amended: packages_map has exactly one entry per displayed name, mapping
\* to the last displayed package of that name; with pairwise distinct names
\* that is one entry per displayed package and as many entries as rows.
C4_MapOneEntryPerName ==
    /\ DOMAIN packages_map = { RowPackage(i)["name"] : i \in DOMAIN packages }
    /\ \A n \in DOMAIN packages_map :
          \E i \in DOMAIN packages :
              /\ packages_map[n] = packages[i]
              /\ RowPackage(i)["name"] = n
              /\ \A j \in DOMAIN packages : RowPackage(j)["name"] = n => j <= i
    /\ DistinctNames => C4_MapOneEntryPerPackage

\* C4 witness: two packages of one name are displayed after a load.
C4_Witness ==
    /\ call.op = "load_packages"
    /\ rowCount = 2
    /\ ~DistinctNames
    /\ Cardinality(DOMAIN packages_map) = 1

\* C5: after a load the names data() returns are in ascending order by row.
C5_RowsSortedByName ==
    call.op = "load_packages" =>
        \A i, j \in 0..(rowCount - 1) :
            i < j => NameRank[data(DisplayQuery(i, NAME).index, "DisplayRole")]
                        <= NameRank[data(DisplayQuery(j, NAME).index, "DisplayRole")]

\* C6: with n rows and current row r, next_row goes to r+1, or to 0 from the
\* last row; previous_row goes to r-1, or to n-1 from row 0; the current row
\* afterwards is a row of the table or none (-1), also for r = -1 and n = 0.
C6_RowNavigationWraps ==
    LET n == rowCount
        r == call.row
    IN  /\ current_row \in -1..(n - 1)
        /\ (call.op = "next_row" /\ n > 0) =>
              current_row = (IF r < n - 1 THEN r + 1 ELSE 0)
        /\ (call.op = "next_row" /\ n = 0) => current_row = -1
        /\ (call.op = "previous_row" /\ r > 0) => current_row = r - 1
        /\ (call.op = "previous_row" /\ r = 0) => current_row = n - 1
        /\ (call.op = "previous_row" /\ r = -1) => current_row = -1

\* C6 witness: next_row on the last of several rows went to the first row.
C6_Witness ==
    /\ call.op = "next_row"
    /\ rowCount = MaxLen
    /\ call.row = rowCount - 1
    /\ current_row = 0

\* C7: a context-menu event opens the menu only on a displayed row whose
\* package is requested; not on a position without a row (rowAt = -1).
C7_MenuOnlyOnRequestedRow ==
    (call.op = "contextMenuEvent" /\ menu_open) =>
        /\ call.row \in 0..(rowCount - 1)
        /\ RowPackage(call.row + 1)["requested"]

\* C8: a triggered entry of a menu opened on a row emits once, with the name
\* of its own action and a package that is displayed when it is triggered.
C8_EmitsDisplayedPackage ==
    \A a \in DOMAIN MenuLabels :
        (call.op = MenuLabels[a] /\ call.row >= 0) =>
            /\ Len(emitted) = 1
            /\ emitted[1].action =
                  <<"update_package", "unistall_package", "install_package_version">>[a]
            /\ emitted[1].package_info \in Range(packages)

\* A query the claim calls out of range: an invalid index, a row outside
\* [0, rowCount) or a column outside {0, 1, 2}.
OutOfRange(q, rows) ==
    \/ ~q.index.valid
    \/ q.index.row < 0
    \/ q.index.row >= rows
    \/ q.index.column \notin {NAME, DESCRIPTION, VERSION}

\* C9: data() with the display role returns the empty value for every
\* out-of-range query, and asking leaves packages, packages_map and
\* all_packages as they were.
C9_OutOfRangeIsEmpty ==
    [][call'.op = "paint" =>
          /\ \A q \in Queries :
                (q.role = "DisplayRole" /\ OutOfRange(q, rowCount)) => cells'[q] = EmptyVariant
          /\ UNCHANGED <<packages, packages_map, all_packages>>
          /\ \A id \in Range(all_packages) : heap'[id] = heap[id]]_vars

\* C9 witness: a paint of a one-row table found row 0 filled and left the
\* cells of row 1 and of column 3 empty.
C9_Witness ==
    /\ call.op = "paint"
    /\ rowCount = 1
    /\ cells[DisplayQuery(0, NAME)] # EmptyVariant
    /\ cells[DisplayQuery(1, NAME)] = EmptyVariant
    /\ cells[DisplayQuery(0, 3)] = EmptyVariant

\* C10: for every row in [0, rowCount) and column in {0, 1, 2}, data() with
\* the display role returns the name, description or version of packages[row].
C10_CellShowsPackageField ==
    call.op = "paint" =>
        \A row \in 0..(rowCount - 1), column \in {NAME, DESCRIPTION, VERSION} :
            cells[DisplayQuery(row, column)] = RowPackage(row + 1)[ColumnKey[column]]

\* C10 witness: a paint after a filtered reload showed six 1.1 in row 0.
C10_Witness ==
    /\ call.op = "paint"
    /\ rowCount = 1
    /\ Len(all_packages) = 2
    /\ cells[DisplayQuery(0, NAME)] = "six"
    /\ cells[DisplayQuery(0, DESCRIPTION)] = "py2/py3 compat"
    /\ cells[DisplayQuery(0, VERSION)] = "1.1"

====
